---- MODULE Spec2Model ----
(***************************************************************************)
(* A model of src/src/syntax.rs: the backtracking recursive-descent parser *)
(* of rubf.  The recursion of parse/exp/exp_list/lp/sym is made explicit   *)
(* as a call stack of frames; every step of the model is the code between  *)
(* two calls or returns of one function.                                   *)
(***************************************************************************)
EXTENDS Integers, Sequences, FiniteSets, TLC

(* ------------------------------ bounds --------------------------------- *)
\* longest token sequence handed to parser
MaxLen == 5
\* longest token sequence handed to a single parse(source, rule) call
MaxRuleLen == 4
\* longest token sequence of the fair (termination) specification
MaxLiveLen == 4
\* how far past the end of the sequence the cursor may be pushed
MaxOverread == 3

(* ------------------------------ symbols -------------------------------- *)
LeftBracket == "LeftBracket"
RightBracket == "RightBracket"
EoF == "EoF"
PlusOne == "PlusOne"
MinusOne == "MinusOne"

Symbol == {LeftBracket, RightBracket, EoF, PlusOne, MinusOne}

RECURSIVE SeqsUpTo(_, _)
SeqsUpTo(S, n) ==
    IF n = 0 THEN {<<>>}
    ELSE LET shorter == SeqsUpTo(S, n - 1)
         IN  shorter \cup {Append(s, x) : s \in {t \in shorter : Len(t) = n - 1}, x \in S}

(* ---------------------------- expressions ------------------------------ *)
\* enum Expression { Loop(Vec<Expression>), Operator(Symbol) }
Loop(list) == [tag |-> "Loop", sym |-> "-", body |-> list]
Operator(s) == [tag |-> "Operator", sym |-> s, body |-> <<>>]

(* ----------------------------- diagnostics ----------------------------- *)
\* anyhow!(msg, got): a fresh error with no context
Anyhow(msg, got) == [msg |-> msg, got |-> got, context |-> <<>>]
\* Error::context(c): the error wrapped in one more layer of context
Context(err, c) == [err EXCEPT !.context = Append(@, c)]

\* Result<Expression>
Ok(v) == [ok |-> TRUE, vec |-> FALSE, val |-> v]
\* Result<Vec<Expression>>, Result<Program>
OkVec(list) == [ok |-> TRUE, vec |-> TRUE, val |-> list]
\* Err(e), of either type
Err(e) == [ok |-> FALSE, err |-> e]
\* no value: a call is in progress
None == [none |-> TRUE]

(* ------------------------------- state --------------------------------- *)
VARIABLES
    code,       \* Source.code: the borrowed token sequence
    cursor,     \* Source.cursor
    stack,      \* the call stack below parser: frames of parse/exp/exp_list/lp/sym
    ret,        \* the Result the last returning call handed to its caller
    symbol,     \* the value of the last next_symbol() call
    result,     \* parser's local `result`
    state,      \* the driver: ACCUMULATING, DONE_OK, DONE_ERROR (RULE: no driver)
    outcome,    \* what parser returned
    entry       \* the call under study: its rule and the cursor it started at

vars == <<code, cursor, stack, ret, symbol, result, state, outcome, entry>>

Frame(fn, pc) ==
    [fn |-> fn, pc |-> pc, rule |-> "-", snapshot |-> 0, lp_err |-> None, result |-> <<>>]

Top == stack[Len(stack)]
Pop == SubSeq(stack, 1, Len(stack) - 1)
SetTop(f) == [stack EXCEPT ![Len(stack)] = f]
Running(fn, pc) == stack # <<>> /\ Top.fn = fn /\ Top.pc = pc

(* ------------------------------ Source --------------------------------- *)
\* a slip: the cursor moved on before the read
GetSymbolAhead(c) == IF c + 1 < Len(code) THEN code[c + 2] ELSE EoF

\* self.code.get(self.cursor).or(Some(&Symbol::EoF)).unwrap()
GetSymbol(c) == IF c < Len(code) THEN code[c + 1] ELSE EoF

\* self.cursor += 1
Advance(c) == c + 1

\* Source::snapshot
Snapshot(c) == c

\* a slip: the snapshot dropped, the cursor left where the rule stopped
RestoreNothing(snapshot, c) == c

\* Source::restore
Restore(snapshot, c) == snapshot

\* Source::next_symbol, as a step: the symbol read and the cursor moved on
NextSymbol ==
    /\ cursor < Len(code) + MaxOverread
    /\ symbol' = GetSymbol(cursor)
    /\ cursor' = Advance(cursor)

(* ------------------------------- parse --------------------------------- *)
\* the start state of a rule's body
RuleFrame(rule) ==
    CASE rule = "exp" -> Frame("exp", "start")
      [] rule = "exp_list" -> Frame("exp_list", "loop")
      [] rule = "lp" -> Frame("lp", "left")
      [] rule = "sym" -> Frame("sym", "read")

\* a call parse(program, rule), not yet entered
ParseFrame(rule) == [Frame("parse", "enter") EXCEPT !.rule = rule]

\* let snapshot = program.snapshot(); rule(program)
ParseEnter ==
    /\ Running("parse", "enter")
    /\ stack' = Append(SetTop([Top EXCEPT !.pc = "rule", !.snapshot = Snapshot(cursor)]),
                       RuleFrame(Top.rule))
    /\ UNCHANGED <<code, cursor, ret, symbol, result, state, outcome, entry>>

\* the error parse reports in place of the rule's own
ParseError(rule_err) == Anyhow("parse error", "-")

\* if let Ok(exp) = rule(program) { return Ok(exp); }
ParseOk ==
    /\ Running("parse", "rule")
    /\ ret # None /\ ret.ok
    /\ stack' = Pop
    /\ UNCHANGED <<code, cursor, ret, symbol, result, state, outcome, entry>>

\* program.restore(snapshot); Err(anyhow!("parse error"))
ParseErr ==
    /\ Running("parse", "rule")
    /\ ret # None /\ ~ret.ok
    /\ cursor' = Restore(Top.snapshot, cursor)
    /\ ret' = Err(ParseError(ret.err))
    /\ stack' = Pop
    /\ UNCHANGED <<code, symbol, result, state, outcome, entry>>

(* -------------------------------- sym ---------------------------------- *)
\* a slip: the brackets taken for operators
IsOperatorNotEoF(s) == s # EoF

\* a slip: the end of input taken for an operator
IsOperatorNotBracket(s) == s \notin {RightBracket, LeftBracket}

\* the match of sym: every symbol but the brackets and EoF is an operator
IsOperator(s) == s \notin {RightBracket, LeftBracket, EoF}

SymResult(s) ==
    IF IsOperator(s) THEN Ok(Operator(s)) ELSE Err(Anyhow("Expect symbols", s))

Sym ==
    /\ Running("sym", "read")
    /\ NextSymbol
    /\ ret' = SymResult(symbol')
    /\ stack' = Pop
    /\ UNCHANGED <<code, result, state, outcome, entry>>

(* --------------------------------- lp ---------------------------------- *)
\* the first check of lp: a left bracket opens the loop
IsLeft(s) == s = LeftBracket

\* a slip: the loop closed by the bracket that opens it
LpResultLeft(s, exp_list) ==
    IF LeftBracket # s THEN Err(Anyhow("Expect right bracket", s)) ELSE Ok(Loop(exp_list))

\* the last check of lp: a right bracket closes it
LpResult(s, exp_list) ==
    IF RightBracket # s THEN Err(Anyhow("Expect right bracket", s)) ELSE Ok(Loop(exp_list))

\* next_symbol; not a left bracket: return Err
LpNotLeft ==
    /\ Running("lp", "left")
    /\ NextSymbol
    /\ ~IsLeft(symbol')
    /\ ret' = Err(Anyhow("Expect left bracket", symbol'))
    /\ stack' = Pop
    /\ UNCHANGED <<code, result, state, outcome, entry>>

\* next_symbol; a left bracket: call parse(program, exp_list)
LpLeft ==
    /\ Running("lp", "left")
    /\ NextSymbol
    /\ IsLeft(symbol')
    /\ stack' = Append(SetTop([Top EXCEPT !.pc = "list"]), ParseFrame("exp_list"))
    /\ ret' = None
    /\ UNCHANGED <<code, result, state, outcome, entry>>

\* parse(program, exp_list)? failed: the error is returned as it is
LpListErr ==
    /\ Running("lp", "list")
    /\ ret # None /\ ~ret.ok
    /\ stack' = Pop
    /\ UNCHANGED <<code, cursor, ret, symbol, result, state, outcome, entry>>

\* the list is there: next_symbol, and the right bracket check
LpClose ==
    /\ Running("lp", "list")
    /\ ret # None /\ ret.ok
    /\ NextSymbol
    /\ ret' = LpResult(symbol', ret.val)
    /\ stack' = Pop
    /\ UNCHANGED <<code, result, state, outcome, entry>>

(* --------------------------------- exp --------------------------------- *)
\* let lp_result = parse(program, lp)
ExpTryLp ==
    /\ Running("exp", "start")
    /\ stack' = Append(SetTop([Top EXCEPT !.pc = "lp"]), ParseFrame("lp"))
    /\ ret' = None
    /\ UNCHANGED <<code, cursor, symbol, result, state, outcome, entry>>

\* lp_result is Ok: return lp_result
ExpLpOk ==
    /\ Running("exp", "lp")
    /\ ret # None /\ ret.ok
    /\ stack' = Pop
    /\ UNCHANGED <<code, cursor, ret, symbol, result, state, outcome, entry>>

\* lp_result is Err: keep the error, let sym_result = parse(program, sym)
ExpTrySym ==
    /\ Running("exp", "lp")
    /\ ret # None /\ ~ret.ok
    /\ stack' = Append(SetTop([Top EXCEPT !.pc = "sym", !.lp_err = ret.err]), ParseFrame("sym"))
    /\ ret' = None
    /\ UNCHANGED <<code, cursor, symbol, result, state, outcome, entry>>

\* sym_result is Ok: return sym_result
ExpSymOk ==
    /\ Running("exp", "sym")
    /\ ret # None /\ ret.ok
    /\ stack' = Pop
    /\ UNCHANGED <<code, cursor, ret, symbol, result, state, outcome, entry>>

\* Err(anyhow!("parse error: ").context(lp_err).context(sym_err))
ExpError(lp_err, sym_err) == Context(Context(Anyhow("parse error: ", "-"), lp_err), sym_err)

ExpBothErr ==
    /\ Running("exp", "sym")
    /\ ret # None /\ ~ret.ok
    /\ ret' = Err(ExpError(Top.lp_err, ret.err))
    /\ stack' = Pop
    /\ UNCHANGED <<code, cursor, symbol, result, state, outcome, entry>>

(* ------------------------------ exp_list ------------------------------- *)
\* while let Ok(exp) = parse(program, exp): the call
ExpListTry ==
    /\ Running("exp_list", "loop")
    /\ stack' = Append(SetTop([Top EXCEPT !.pc = "exp"]), ParseFrame("exp"))
    /\ ret' = None
    /\ UNCHANGED <<code, cursor, symbol, result, state, outcome, entry>>

\* result.push(exp), and around the loop
ExpListPush ==
    /\ Running("exp_list", "exp")
    /\ ret # None /\ ret.ok
    /\ stack' = SetTop([Top EXCEPT !.pc = "loop", !.result = Append(@, ret.val)])
    /\ ret' = None
    /\ UNCHANGED <<code, cursor, symbol, result, state, outcome, entry>>

\* a slip: zero-or-more in place of one-or-more
ExpListResultAny(list) == OkVec(list)

\* if result.is_empty() { Err } else { Ok(result) }
ExpListResult(list) ==
    IF list = <<>> THEN Err(Anyhow("Expect at least one expression", "-")) ELSE OkVec(list)

\* the loop is left at the first failure, which is dropped
ExpListEnd ==
    /\ Running("exp_list", "exp")
    /\ ret # None /\ ~ret.ok
    /\ ret' = ExpListResult(Top.result)
    /\ stack' = Pop
    /\ UNCHANGED <<code, cursor, symbol, result, state, outcome, entry>>

(* ------------------------------- parser -------------------------------- *)
\* loop { match parse(source, exp)
ParserTry ==
    /\ state = "ACCUMULATING"
    /\ stack = <<>> /\ ret = None
    /\ stack' = <<ParseFrame("exp")>>
    /\ UNCHANGED <<code, cursor, ret, symbol, result, state, outcome, entry>>

\* Ok(exp) => result.push(exp)
ParserPush ==
    /\ state = "ACCUMULATING"
    /\ stack = <<>> /\ ret # None /\ ret.ok
    /\ result' = Append(result, ret.val)
    /\ ret' = None
    /\ UNCHANGED <<code, cursor, stack, symbol, state, outcome, entry>>

\* a slip: the program returned whatever stopped the loop
ParserReturnAlwaysOk(s, program, e) == OkVec(program)

\* a slip: the test for EoF turned around
ParserReturnSwapped(s, program, e) == IF s # EoF THEN OkVec(program) ELSE Err(e)

\* a slip: the failure returned whatever stopped the loop
ParserReturnAlwaysErr(s, program, e) == Err(e)

\* if source.next_symbol() == Symbol::EoF { Ok(result) } else { Err(e) }
ParserReturn(s, program, e) == IF s = EoF THEN OkVec(program) ELSE Err(e)

\* Err(e) => return ...
ParserEnd ==
    /\ state = "ACCUMULATING"
    /\ stack = <<>> /\ ret # None /\ ~ret.ok
    /\ NextSymbol
    /\ outcome' = ParserReturn(symbol', result, ret.err)
    /\ state' = IF outcome'.ok THEN "DONE_OK" ELSE "DONE_ERROR"
    /\ ret' = None
    /\ UNCHANGED <<code, stack, result, entry>>

(* --------------------------- specifications ---------------------------- *)
\* Source::new(program), Vec::new(): parser on any sequence of at most n symbols
InitParser(n) ==
    /\ code \in SeqsUpTo(Symbol, n)
    /\ cursor = 0
    /\ stack = <<>>
    /\ ret = None
    /\ symbol = "-"
    /\ result = <<>>
    /\ state = "ACCUMULATING"
    /\ outcome = None
    /\ entry = [rule |-> "parser", cursor |-> 0]

Init == InitParser(MaxLen)

Next ==
    \/ ParserTry \/ ParserPush \/ ParserEnd
    \/ ParseEnter \/ ParseOk \/ ParseErr
    \/ Sym
    \/ LpNotLeft \/ LpLeft \/ LpListErr \/ LpClose
    \/ ExpTryLp \/ ExpLpOk \/ ExpTrySym \/ ExpSymOk \/ ExpBothErr
    \/ ExpListTry \/ ExpListPush \/ ExpListEnd

Spec == Init /\ [][Next]_vars

\* parser under the scheduling of a sequential program: it runs while it can
InitLive == InitParser(MaxLiveLen)

FairSpec == InitLive /\ [][Next]_vars /\ WF_vars(Next)

\* one call parse(source, rule), of any rule, from any cursor position
InitRule ==
    /\ code \in SeqsUpTo(Symbol, MaxRuleLen)
    /\ cursor \in 0..(Len(code) + 1)
    /\ \E rule \in {"sym", "lp", "exp", "exp_list"} :
          /\ stack = <<ParseFrame(rule)>>
          /\ entry = [rule |-> rule, cursor |-> cursor]
    /\ ret = None
    /\ symbol = "-"
    /\ result = <<>>
    /\ state = "RULE"
    /\ outcome = None

NextRule ==
    \/ ParseEnter \/ ParseOk \/ ParseErr
    \/ Sym
    \/ LpNotLeft \/ LpLeft \/ LpListErr \/ LpClose
    \/ ExpTryLp \/ ExpLpOk \/ ExpTrySym \/ ExpSymOk \/ ExpBothErr
    \/ ExpListTry \/ ExpListPush \/ ExpListEnd

SpecRule == InitRule /\ [][NextRule]_vars

(* ------------------------ vocabulary of the claims --------------------- *)
Done == state \in {"DONE_OK", "DONE_ERROR"}

\* the call parse(source, rule) under study has returned
RuleDone == state = "RULE" /\ stack = <<>> /\ ret # None

\* the expressions a Result holds
Exprs(r) == IF r = None \/ ~r.ok THEN <<>> ELSE IF r.vec THEN r.val ELSE <<r.val>>

RECURSIVE Locals(_)
Locals(frames) ==
    IF frames = <<>> THEN <<>> ELSE Head(frames).result \o Locals(Tail(frames))

\* every expression alive in the state: returned, accumulated or handed out
Built == Exprs(ret) \o Locals(stack) \o result \o Exprs(outcome)

\* writing Operator(s) as s and Loop(l) as LeftBracket, l, RightBracket
RECURSIVE Flatten(_)
Flatten(exprs) ==
    IF exprs = <<>> THEN <<>>
    ELSE LET e == Head(exprs)
         IN  (IF e.tag = "Loop" THEN <<LeftBracket>> \o Flatten(e.body) \o <<RightBracket>>
              ELSE <<e.sym>>) \o Flatten(Tail(exprs))

\* the grammar Program ::= Expr*, Expr ::= plain | LeftBracket Expr+ RightBracket,
\* read bottom-up: open is the pile of the expression lists of the open brackets
RECURSIVE Derive(_, _, _)
Derive(toks, i, open) ==
    IF i > Len(toks)
    THEN IF Len(open) = 1 THEN [derivable |-> TRUE, tree |-> open[1]]
         ELSE [derivable |-> FALSE, tree |-> <<>>]
    ELSE LET t == toks[i]
             n == Len(open)
         IN  CASE t = EoF -> [derivable |-> FALSE, tree |-> <<>>]
               [] t = LeftBracket -> Derive(toks, i + 1, Append(open, <<>>))
               [] t = RightBracket ->
                    IF n >= 2 /\ open[n] # <<>>
                    THEN Derive(toks, i + 1,
                                Append(SubSeq(open, 1, n - 2),
                                       Append(open[n - 1],
                                              [tag |-> "Loop", sym |-> "-", body |-> open[n]])))
                    ELSE [derivable |-> FALSE, tree |-> <<>>]
               [] OTHER ->
                    Derive(toks, i + 1,
                           [open EXCEPT ![n] =
                                Append(@, [tag |-> "Operator", sym |-> t, body |-> <<>>])])

Derivation(toks) == Derive(toks, 1, << <<>> >>)

\* the input up to, and without, its first EoF symbol
RECURSIVE BeforeEoF(_)
BeforeEoF(toks) ==
    IF toks = <<>> \/ Head(toks) = EoF THEN <<>> ELSE <<Head(toks)>> \o BeforeEoF(Tail(toks))

RECURSIVE HasEmptyLoop(_)
HasEmptyLoop(exprs) ==
    \E i \in 1..Len(exprs) :
        exprs[i].tag = "Loop" /\ (exprs[i].body = <<>> \/ HasEmptyLoop(exprs[i].body))

RECURSIVE HasBadOperator(_)
HasBadOperator(exprs) ==
    \E i \in 1..Len(exprs) :
        \/ exprs[i].tag = "Operator" /\ exprs[i].sym \in {LeftBracket, RightBracket, EoF}
        \/ exprs[i].tag = "Loop" /\ HasBadOperator(exprs[i].body)

\* a left bracket is still open at the end of the input
RECURSIVE Depth(_, _)
Depth(toks, i) ==
    IF i = 0 THEN 0
    ELSE Depth(toks, i - 1) + (IF toks[i] = LeftBracket THEN 1
                               ELSE IF toks[i] = RightBracket THEN -1 ELSE 0)

UnmatchedLeft(toks) ==
    /\ \A i \in 1..Len(toks) : toks[i] # EoF /\ Depth(toks, i) >= 0
    /\ Depth(toks, Len(toks)) > 0

\* the diagnostic, or one of its layers of context, has the message
Mentions(err, msg) == err.msg = msg \/ \E i \in 1..Len(err.context) : err.context[i].msg = msg

(* ------------------------------- claims -------------------------------- *)
\* C1: on every token sequence without EoF that the grammar derives, parser
\* returns Ok with the tree of the derivation; the two sequences of the spec
\* give the trees the spec names.
C1_ParsesDerivation ==
    Done =>
        /\ Derivation(code).derivable =>
              outcome.ok /\ outcome.val = Derivation(code).tree
        /\ code = <<LeftBracket, PlusOne, RightBracket, MinusOne>> =>
              outcome.ok /\ outcome.val = <<Loop(<<Operator(PlusOne)>>), Operator(MinusOne)>>
        /\ code = <<LeftBracket, LeftBracket, PlusOne, RightBracket, RightBracket>> =>
              outcome.ok /\ outcome.val = <<Loop(<<Loop(<<Operator(PlusOne)>>)>>)>>

C1_Witness ==
    /\ state = "DONE_OK"
    /\ code = <<LeftBracket, LeftBracket, PlusOne, RightBracket, RightBracket>>
    /\ outcome.val = <<Loop(<<Loop(<<Operator(PlusOne)>>)>>)>>

\* C2 as stated: whenever parser returns Ok(program), writing the program
\* back as tokens reproduces the input sequence.
C2_ReproducesInput ==
    state = "DONE_OK" => Flatten(outcome.val) = code

\* C2 amended: whenever parser returns Ok(program), writing the program back
\* as tokens reproduces the input up to, and without, its first EoF symbol.
C2_ReproducesInputBeforeEoF ==
    state = "DONE_OK" => Flatten(outcome.val) = BeforeEoF(code)

C2_Witness ==
    /\ state = "DONE_OK"
    /\ Len(outcome.val) = 2
    /\ Flatten(outcome.val) = code
    /\ Len(code) = 4

\* C3: no Loop with an empty expression sequence exists in any result, local
\* or returned program, at any depth; parser fails on [LeftBracket, RightBracket].
C3_NoEmptyLoop ==
    /\ ~HasEmptyLoop(Built)
    /\ Done /\ code = <<LeftBracket, RightBracket>> => ~outcome.ok

C3_Witness ==
    /\ state = "DONE_ERROR"
    /\ code = <<LeftBracket, RightBracket>>

\* C4: no Operator in any result wraps a bracket or EoF; when loop-rule has
\* failed at a bracket, symbol-rule fails there too and expression-rule fails.
C4_NoBracketOperator ==
    /\ ~HasBadOperator(Built)
    /\ Running("exp", "sym") /\ ret # None
          /\ GetSymbol(stack[Len(stack) - 1].snapshot) \in {LeftBracket, RightBracket}
       => ~ret.ok /\ cursor = stack[Len(stack) - 1].snapshot

C4_Witness ==
    /\ Running("exp", "sym") /\ ret # None
    /\ GetSymbol(stack[Len(stack) - 1].snapshot) = LeftBracket
    /\ ~ret.ok

\* C5: on an input that ends with an unmatched LeftBracket parser returns Err
\* and the diagnostic is of the class "Expect right bracket".
C5_MissingRightBracket ==
    Done /\ UnmatchedLeft(code) =>
        ~outcome.ok /\ Mentions(outcome.err, "Expect right bracket")

\* C6: parser on the empty token sequence returns Ok with the empty program.
C6_EmptyInput ==
    Done /\ code = <<>> => outcome = OkVec(<<>>)

C6_Witness ==
    state = "DONE_OK" /\ code = <<>> /\ cursor = 1

\* C7: when parse(source, rule) returns Err, for any rule and any starting
\* cursor, the cursor is the one before the call and the reads that follow
\* give the tokens they would have given before.
C7_FailedParseRestores ==
    RuleDone /\ ~ret.ok =>
        /\ cursor = entry.cursor
        /\ \A k \in 0..(MaxRuleLen + 1) : GetSymbol(cursor + k) = GetSymbol(entry.cursor + k)

C7_Witness ==
    /\ RuleDone /\ ~ret.ok
    /\ entry = [rule |-> "lp", cursor |-> 0]
    /\ code = <<LeftBracket, PlusOne, MinusOne>>
    /\ symbol = EoF
    /\ cursor = 0

\* C8: on every finite token sequence parser returns, Ok or Err.
C8_Terminates == <>Done

C8_Witness ==
    /\ state = "DONE_OK"
    /\ code = <<LeftBracket, PlusOne, RightBracket, MinusOne>>

\* C9: next_symbol at cursor c gives code[c] inside the sequence and EoF
\* outside, and leaves the cursor at c + 1, also past the end.
C9_NextSymbol ==
    [][/\ cursor' > cursor =>
             /\ cursor' = cursor + 1
             /\ symbol' = IF cursor < Len(code) THEN code[cursor + 1] ELSE EoF
       /\ symbol' # symbol => cursor' > cursor]_vars

C9_Witness ==
    cursor = Len(code) + 2 /\ symbol = EoF

\* C10: the driver stays ACCUMULATING and appends while expression-rule
\* succeeds; at the first failure it reads the token at the restored cursor
\* and is DONE_OK with the accumulated sequence iff the token is EoF, else
\* DONE_ERROR; after that nothing runs and nothing changes.
C10_DriverMachine ==
    [][/\ state = "ACCUMULATING"
       /\ state' \in {"ACCUMULATING", "DONE_OK", "DONE_ERROR"}
       /\ stack = <<>> /\ ret # None /\ ret.ok =>
             state' = state /\ result' = Append(result, ret.val)
       /\ ~(stack = <<>> /\ ret # None) => state' = state /\ result' = result
       /\ stack = <<>> /\ ret # None /\ ~ret.ok =>
             /\ cursor = Len(Flatten(result))
             /\ cursor' = cursor + 1
             /\ stack' = <<>>
             /\ state' = (IF (IF cursor < Len(code) THEN code[cursor + 1] ELSE EoF) = EoF
                          THEN "DONE_OK" ELSE "DONE_ERROR")
             /\ state' = "DONE_OK" => outcome' = OkVec(result)
             /\ state' = "DONE_ERROR" => ~outcome'.ok]_vars

C10_Witness ==
    /\ state = "DONE_ERROR"
    /\ Len(result) = 2
    /\ cursor = Len(Flatten(result)) + 1

\* C11: a parse(source, rule) that returns Ok has moved the cursor forward:
\* by at least one for every rule, by at least three for lp.
C11_SuccessConsumes ==
    RuleDone /\ ret.ok =>
        /\ cursor > entry.cursor
        /\ entry.rule = "lp" => cursor >= entry.cursor + 3

C11_Witness ==
    /\ RuleDone /\ ret.ok
    /\ entry.rule = "lp"
    /\ cursor = entry.cursor + 3

(* ------------------ the grammar with a retrying repetition ------------- *)
\* Every way in which the rules can match at position c when the repetition
\* may stop after any number (at least one) of expressions and either
\* alternative of an expression may be taken: the sets of [val, pos] that a
\* parser retrying with fewer accepted expressions chooses its result from.
RECURSIVE AnyLp(_), AnyExp(_), AnyList(_)

AnySym(c) ==
    IF c < Len(code) /\ code[c + 1] \notin {LeftBracket, RightBracket, EoF}
    THEN {[val |-> [tag |-> "Operator", sym |-> code[c + 1], body |-> <<>>], pos |-> c + 1]}
    ELSE {}

AnyLp(c) ==
    IF c < Len(code) /\ code[c + 1] = LeftBracket
    THEN {[val |-> [tag |-> "Loop", sym |-> "-", body |-> l.val], pos |-> l.pos + 1] :
             l \in {m \in AnyList(c + 1) : m.pos < Len(code) /\ code[m.pos + 1] = RightBracket}}
    ELSE {}

AnyExp(c) == AnyLp(c) \cup AnySym(c)

AnyList(c) ==
    UNION {{[val |-> <<e.val>>, pos |-> e.pos]}
              \cup {[val |-> <<e.val>> \o r.val, pos |-> r.pos] : r \in AnyList(e.pos)} :
           e \in AnyExp(c)}

AnyOf(rule, c) ==
    CASE rule = "lp" -> AnyLp(c)
      [] rule = "exp" -> AnyExp(c)
      [] rule = "sym" -> AnySym(c)
      [] rule = "exp_list" -> AnyList(c)

\* C12: the greedy repetition loses nothing: lp and exp succeed exactly when
\* the retrying grammar has a match, which is then the only one and the one
\* returned; exp_list returns the longest of the retrying grammar's lists;
\* when the right bracket check fails after the list was accepted, lp returns
\* Err at once, without another call of exp_list, and parse puts the cursor
\* back to where lp started.
C12_GreedyState ==
    /\ RuleDone /\ entry.rule \in {"lp", "exp"} =>
          IF ret.ok
          THEN AnyOf(entry.rule, entry.cursor) = {[val |-> ret.val, pos |-> cursor]}
          ELSE AnyOf(entry.rule, entry.cursor) = {} /\ cursor = entry.cursor
    /\ RuleDone /\ entry.rule = "exp_list" =>
          IF ret.ok
          THEN /\ [val |-> ret.val, pos |-> cursor] \in AnyList(entry.cursor)
               /\ \A m \in AnyList(entry.cursor) : m.pos <= cursor
          ELSE AnyList(entry.cursor) = {} /\ cursor = entry.cursor

C12_GreedyStep ==
    /\ Running("lp", "list") /\ ret # None /\ ret.ok
          /\ (IF cursor < Len(code) THEN code[cursor + 1] ELSE EoF) # RightBracket
       => /\ stack' = SubSeq(stack, 1, Len(stack) - 1)
          /\ ~ret'.ok
          /\ stack'[Len(stack')].fn = "parse" /\ stack'[Len(stack')].rule = "lp"
    /\ Running("parse", "rule") /\ Top.rule = "lp" /\ ret # None /\ ~ret.ok
       => /\ cursor' = Top.snapshot
          /\ stack' = SubSeq(stack, 1, Len(stack) - 1)
          /\ ~ret'.ok

C12_GreedyIsEnough == []C12_GreedyState /\ [][C12_GreedyStep]_vars

\* lp has just failed its right bracket check after a list of two expressions
C12_Witness ==
    /\ Running("parse", "rule") /\ Top.rule = "lp"
    /\ ret # None /\ ~ret.ok /\ ret.err.msg = "Expect right bracket"
    /\ cursor = Top.snapshot + 4

\* C13: expression-rule is an ordered choice: symbol-rule is tried only after
\* loop-rule has failed, and from the cursor loop-rule was tried from; the
\* first success is what exp returns; when both fail, the error exp returns
\* carries loop-rule's own message and symbol-rule's own message.
C13_OrderedChoiceDiagnostics ==
    /\ Running("exp", "sym") =>
          /\ Top.lp_err # None
          /\ ret # None => cursor \in {stack[Len(stack) - 1].snapshot,
                                       stack[Len(stack) - 1].snapshot + 1}
    /\ Running("parse", "enter") /\ Top.rule = "sym" =>
          cursor = stack[Len(stack) - 2].snapshot
    /\ Running("parse", "rule") /\ Top.rule = "exp" /\ ret # None /\ ~ret.ok =>
          /\ Mentions(ret.err, "Expect symbols")
          /\ GetSymbol(Top.snapshot) # LeftBracket => Mentions(ret.err, "Expect left bracket")

\* the nodes of a sequence of expressions: every Operator and every Loop, at all depths
RECURSIVE Nodes(_)
Nodes(exprs) ==
    IF exprs = <<>> THEN 0
    ELSE 1 + Nodes(Head(exprs).body) + Nodes(Tail(exprs))

\* the first position at which the retrying grammar has no expression
RECURSIVE FirstFailure(_)
FirstFailure(c) ==
    IF AnyExp(c) = {} THEN c ELSE FirstFailure((CHOOSE m \in AnyExp(c) : TRUE).pos)

\* C14: the program parser returns has at most as many nodes as the input has
\* tokens, and so has the sequence it accumulates on the way.
C14_NodesWithinInput ==
    /\ Nodes(result) <= Len(code)
    /\ state = "DONE_OK" => Nodes(outcome.val) <= Len(code)

C14_Witness ==
    /\ state = "DONE_OK"
    /\ Nodes(outcome.val) = Len(code)
    /\ Len(code) = MaxLen

\* C16: in a run of parser on n symbols the cursor never passes n + 1, and
\* while the Ok of a rule is being handed back the cursor is at most n.
C16_OverreadBounded ==
    /\ cursor <= Len(code) + 1
    /\ ret # None /\ ret.ok => cursor <= Len(code)

C16_Witness ==
    /\ cursor = Len(code) + 1
    /\ Running("parse", "rule") /\ Top.rule = "lp"
    /\ ret # None /\ ~ret.ok /\ ret.err.msg = "Expect right bracket"

\* C17: an Err of parser carries the diagnostic only, none of the expressions
\* accumulated before; and parser returns Err whenever the token at the first
\* position where no expression can be parsed is not EoF, however many
\* expressions precede it.
C17_AllOrNothing ==
    Done =>
        /\ ~outcome.ok => outcome = [ok |-> FALSE, err |-> outcome.err] /\ Exprs(outcome) = <<>>
        /\ (IF FirstFailure(0) < Len(code) THEN code[FirstFailure(0) + 1] ELSE EoF) # EoF =>
              ~outcome.ok

C17_Witness ==
    /\ state = "DONE_ERROR"
    /\ Len(result) = 3
    /\ FirstFailure(0) = 3
    /\ code[4] = RightBracket

(* ------------------- parser called on the truncated input -------------- *)
\* a caller that, once parser has returned, keeps what it returned and calls
\* parser again on the same sequence cut just before its first EoF symbol
ParserAgain ==
    /\ Done
    /\ entry.rule = "parser"
    /\ entry' = [rule |-> "parser again", cursor |-> 0, first |-> outcome, input |-> code]
    /\ code' = BeforeEoF(code)
    /\ cursor' = 0
    /\ stack' = <<>>
    /\ ret' = None
    /\ symbol' = "-"
    /\ result' = <<>>
    /\ state' = "ACCUMULATING"
    /\ outcome' = None

NextTwice ==
    \/ ParserAgain
    \/ ParserTry \/ ParserPush \/ ParserEnd
    \/ ParseEnter \/ ParseOk \/ ParseErr
    \/ Sym
    \/ LpNotLeft \/ LpLeft \/ LpListErr \/ LpClose
    \/ ExpTryLp \/ ExpLpOk \/ ExpTrySym \/ ExpSymOk \/ ExpBothErr
    \/ ExpListTry \/ ExpListPush \/ ExpListEnd

SpecTwice == Init /\ [][NextTwice]_vars

\* C15: parser returns for a token sequence what it returns for the sequence
\* cut just before its first EoF symbol, the same Ok program or the same Err;
\* and no position after the first EoF symbol is ever read.
C15_PrefixDecides ==
    /\ cursor <= Len(BeforeEoF(code)) + 1
    /\ Done /\ entry.rule = "parser again" =>
          /\ code = BeforeEoF(entry.input)
          /\ outcome = entry.first

C15_Witness ==
    /\ state = "DONE_OK"
    /\ entry.rule = "parser again"
    /\ entry.input = <<LeftBracket, PlusOne, RightBracket, EoF, RightBracket>>
    /\ outcome = entry.first
    /\ outcome.val = <<Loop(<<Operator(PlusOne)>>)>>

====
